---- MODULE Spec2Model ----
(***************************************************************************)
(* Model of the scheduled-post store of backend/src/scheduler.py:          *)
(* the PostQueue class, its ScheduledPost records, the JSON file it        *)
(* persists to, and the wall clock the store reads with datetime.now().    *)
(* Time is counted in whole minutes.                                       *)
(***************************************************************************)
EXTENDS Integers, Sequences, FiniteSets, TLC

VARIABLES
  queue,       \* PostQueue.queue: the in-memory list of ScheduledPost
  file,        \* the content of the file at PostQueue.storage_path
  now,         \* what datetime.now() returns, in minutes
  nextId,      \* the next value uuid4 returns
  everIds,     \* the ids of all records that ever were in the queue
  call,        \* the last step: a call on the store with its arguments, or a tick
  ret,         \* what that call returned or raised
  calls,       \* how many calls were made and how often the clock advanced
  ioFailures,  \* how many file-system failures happened
  saveFailed,  \* whether some save_queue raised SAVE_ERROR
  other,       \* PostQueue.queue of a second store built on the same file
  call_history,  \* FacebookAPI.call_history: the times of the recorded calls
  api_time,    \* what time.time() returns, in seconds
  request      \* the last _make_request: when it was made, whether a request
               \* was sent, whether a response came back, what it raised

\* the state of the Graph API client
client == <<call_history, api_time, request>>

\* what a call on the store leaves alone
outside == <<other, client>>

vars == <<queue, file, now, nextId, everIds, call, ret, calls,
          ioFailures, saveFailed, outside>>

(***************************************************************************)
(* Bounds of the model.                                                    *)
(***************************************************************************)
MaxIds == 2
MaxCalls == 3
MaxIoFailures == 1
MaxStoreCalls == 2

(***************************************************************************)
(* Program constants.                                                      *)
(***************************************************************************)
MinFutureMinutes == 10
MaxFutureDays == 365
MinutesPerHour == 60
HoursPerDay == 24
MinutesPerDay == HoursPerDay * MinutesPerHour
MaxFutureMinutes == MaxFutureDays * MinutesPerDay
UpcomingHours == 24
PreviewLen == 50
RATE_LIMIT_CALLS == 200
RATE_LIMIT_WINDOW == 3600

(***************************************************************************)
(* Python values: None, datetime, str and the members of the two enums.    *)
(***************************************************************************)
None == [tag |-> "None"]
Dt(n) == [tag |-> "datetime", minutes |-> n]
Str(s) == [tag |-> "str", chars |-> s]
IsNone(v) == v.tag = "None"

\* bool(v) as Python evaluates it in `if v` / `x and v`
Truthy(v) ==
  CASE v.tag = "None" -> FALSE
    [] v.tag = "str" -> v.chars # ""
    [] v.tag = "int" -> v.val # 0
    [] OTHER -> TRUE

PyInt(n) == [tag |-> "int", val |-> n]

PostStatusNames == {"SCHEDULED", "PENDING", "POSTED", "FAILED", "CANCELLED"}
RecurrenceTypeNames == {"NONE", "DAILY", "WEEKLY", "MONTHLY"}

PostStatus(name) == [tag |-> "PostStatus", name |-> name]
RecurrenceType(name) == [tag |-> "RecurrenceType", name |-> name]

PostStatusMembers == {PostStatus(n) : n \in PostStatusNames}
RecurrenceTypeMembers == {RecurrenceType(n) : n \in RecurrenceTypeNames}

\* member.value
PostStatusValue(m) ==
  CASE m.name = "SCHEDULED" -> "scheduled"
    [] m.name = "PENDING" -> "pending"
    [] m.name = "POSTED" -> "posted"
    [] m.name = "FAILED" -> "failed"
    [] m.name = "CANCELLED" -> "cancelled"

RecurrenceTypeValue(m) ==
  CASE m.name = "NONE" -> "none"
    [] m.name = "DAILY" -> "daily"
    [] m.name = "WEEKLY" -> "weekly"
    [] m.name = "MONTHLY" -> "monthly"

\* PostStatus(value) / RecurrenceType(value): lookup by value, None when
\* no member has that value (the constructor raises ValueError)
PostStatusFromValue(s) ==
  IF \E m \in PostStatusMembers : PostStatusValue(m) = s
    THEN CHOOSE m \in PostStatusMembers : PostStatusValue(m) = s
    ELSE None

RecurrenceTypeFromValue(s) ==
  IF \E m \in RecurrenceTypeMembers : RecurrenceTypeValue(m) = s
    THEN CHOOSE m \in RecurrenceTypeMembers : RecurrenceTypeValue(m) = s
    ELSE None

\* datetime.isoformat(): the date and the time of day, as text
IsoFormat(d) ==
  [tag |-> "isostr",
   date |-> d.minutes \div MinutesPerDay,
   hour |-> (d.minutes % MinutesPerDay) \div MinutesPerHour,
   minute |-> d.minutes % MinutesPerHour]

\* datetime.fromisoformat()
FromIsoFormat(s) ==
  Dt(s.date * MinutesPerDay + s.hour * MinutesPerHour + s.minute)

(***************************************************************************)
(* ScheduledPost                                                           *)
(***************************************************************************)
\* the record the dataclass constructor builds at time clock
ScheduledPost(id, post_type, message, schedule_time, link, image_path, alt_text, recurrence, recurrence_end, clock) ==
  [id |-> id,
   post_type |-> post_type,
   message |-> message,
   schedule_time |-> schedule_time,
   status |-> PostStatus("SCHEDULED"),
   recurrence |-> recurrence,
   recurrence_end |-> recurrence_end,
   created_at |-> Dt(clock),
   updated_at |-> Dt(clock),
   link |-> link,
   image_path |-> image_path,
   alt_text |-> alt_text,
   facebook_post_id |-> None,
   execution_attempts |-> 0,
   last_error |-> None]

\* to_dict raises AttributeError when a field that is dereferenced
\* (.isoformat(), .value) does not hold the type the method expects
CanToDict(p) ==
  /\ p.schedule_time.tag = "datetime"
  /\ p.status.tag = "PostStatus"
  /\ p.recurrence.tag = "RecurrenceType"
  /\ p.created_at.tag = "datetime"
  /\ p.updated_at.tag = "datetime"
  /\ (Truthy(p.recurrence_end) => p.recurrence_end.tag = "datetime")

to_dict(p) ==
  [id |-> p.id,
   post_type |-> p.post_type,
   message |-> p.message,
   schedule_time |-> IsoFormat(p.schedule_time),
   status |-> Str(PostStatusValue(p.status)),
   recurrence |-> Str(RecurrenceTypeValue(p.recurrence)),
   recurrence_end |-> IF Truthy(p.recurrence_end)
                        THEN IsoFormat(p.recurrence_end) ELSE None,
   created_at |-> IsoFormat(p.created_at),
   updated_at |-> IsoFormat(p.updated_at),
   link |-> p.link,
   image_path |-> p.image_path,
   alt_text |-> p.alt_text,
   facebook_post_id |-> p.facebook_post_id,
   execution_attempts |-> p.execution_attempts,
   last_error |-> p.last_error]

\* the keys from_dict reads with data[...]; the others are read with .get
RequiredKeys == {"id", "post_type", "message", "schedule_time", "status",
                 "recurrence", "created_at", "updated_at"}

\* data.get(key, default)
Get(d, key, default) == IF key \in DOMAIN d THEN d[key] ELSE default

\* from_dict raises KeyError when a required key is missing, TypeError or
\* ValueError when a timestamp is not an ISO string, and ValueError when an
\* enum value is unknown
CanFromDict(d) ==
  /\ RequiredKeys \subseteq DOMAIN d
  /\ d.schedule_time.tag = "isostr"
  /\ d.created_at.tag = "isostr"
  /\ d.updated_at.tag = "isostr"
  /\ ~IsNone(PostStatusFromValue(d.status.chars))
  /\ ~IsNone(RecurrenceTypeFromValue(d.recurrence.chars))
  /\ (Truthy(Get(d, "recurrence_end", None)) =>
        Get(d, "recurrence_end", None).tag = "isostr")

from_dict(d) ==
  [id |-> d.id,
   post_type |-> d.post_type,
   message |-> d.message,
   schedule_time |-> FromIsoFormat(d.schedule_time),
   status |-> PostStatusFromValue(d.status.chars),
   recurrence |-> RecurrenceTypeFromValue(d.recurrence.chars),
   recurrence_end |-> IF Truthy(Get(d, "recurrence_end", None))
                        THEN FromIsoFormat(d.recurrence_end) ELSE None,
   created_at |-> FromIsoFormat(d.created_at),
   updated_at |-> FromIsoFormat(d.updated_at),
   link |-> Get(d, "link", None),
   image_path |-> Get(d, "image_path", None),
   alt_text |-> Get(d, "alt_text", None),
   facebook_post_id |-> Get(d, "facebook_post_id", None),
   execution_attempts |-> Get(d, "execution_attempts", 0),
   last_error |-> Get(d, "last_error", None)]

(***************************************************************************)
(* The storage file: absent, a JSON array of records, or text that is not  *)
(* a JSON document (an emptied or partly written file).                    *)
(***************************************************************************)
FileAbsent == [kind |-> "absent"]
FileJson(data) == [kind |-> "json", data |-> data]
FileTruncated == [kind |-> "truncated"]

\* outcomes of the file system during save_queue
IoOutcomes == {"ok", "open_fails", "write_fails"}

\* a save that keeps the records of the file the store does not hold
save_queue_merging(q, f, io) ==
  IF io = "open_fails"
    THEN [file |-> f, raised |-> TRUE]
    ELSE IF (\E i \in 1..Len(q) : ~CanToDict(q[i])) \/ io = "write_fails"
      THEN [file |-> FileTruncated, raised |-> TRUE]
      ELSE LET held == {q[i].id : i \in 1..Len(q)}
               kept == IF f.kind = "json"
                         THEN SelectSeq(f.data, LAMBDA d : d.id \notin held)
                         ELSE <<>>
           IN [file |-> FileJson(kept \o [i \in 1..Len(q) |-> to_dict(q[i])]),
               raised |-> FALSE]

\* save_queue: open(...,'w') empties the file, then the records are
\* converted and dumped.  Result: the file and whether SAVE_ERROR is raised.
save_queue(q, f, io) ==
  IF io = "open_fails"
    THEN [file |-> f, raised |-> TRUE]
    ELSE IF \E i \in 1..Len(q) : ~CanToDict(q[i])
      THEN [file |-> FileTruncated, raised |-> TRUE]
      ELSE IF io = "write_fails"
        THEN [file |-> FileTruncated, raised |-> TRUE]
        ELSE [file |-> FileJson([i \in 1..Len(q) |-> to_dict(q[i])]),
              raised |-> FALSE]

\* a load that starts empty whenever the file cannot be read
load_queue_lenient(f) ==
  IF f.kind = "json" /\ \A i \in 1..Len(f.data) : CanFromDict(f.data[i])
    THEN [queue |-> [i \in 1..Len(f.data) |-> from_dict(f.data[i])],
          raised |-> FALSE]
    ELSE [queue |-> <<>>, raised |-> FALSE]

\* load_queue: the queue a new store holds, and whether LOAD_ERROR is raised
load_queue(f) ==
  IF f.kind = "absent"
    THEN [queue |-> <<>>, raised |-> FALSE]
    ELSE IF f.kind = "truncated"
      THEN [queue |-> <<>>, raised |-> TRUE]
      ELSE IF \E i \in 1..Len(f.data) : ~CanFromDict(f.data[i])
        THEN [queue |-> <<>>, raised |-> TRUE]
        ELSE [queue |-> [i \in 1..Len(f.data) |-> from_dict(f.data[i])],
              raised |-> FALSE]

Raise(code) == [tag |-> "raise", exc |-> "SchedulingError", code |-> code]
RaiseOther(exc) == [tag |-> "raise", exc |-> exc, code |-> "-"]
Returned(v) == [tag |-> "return", val |-> v]

\* validate_schedule_time with the minimum lead compared by <= instead of <
validate_schedule_time_inclusive(schedule_time, clock) ==
  IF schedule_time.minutes <= clock
    THEN "INVALID_TIME_PAST"
    ELSE IF schedule_time.minutes <= clock + MinFutureMinutes
      THEN "INVALID_TIME_TOO_SOON"
      ELSE IF schedule_time.minutes > clock + MaxFutureMinutes
        THEN "INVALID_TIME_TOO_FAR"
        ELSE "OK"

\* validate_schedule_time without the minimum lead
validate_schedule_time_no_lead(schedule_time, clock) ==
  IF schedule_time.minutes <= clock
    THEN "INVALID_TIME_PAST"
    ELSE IF schedule_time.minutes > clock + MaxFutureMinutes
      THEN "INVALID_TIME_TOO_FAR"
      ELSE "OK"

(***************************************************************************)
(* validate_schedule_time: "OK" or the error code of the SchedulingError   *)
(***************************************************************************)
validate_schedule_time(schedule_time, clock) ==
  IF schedule_time.minutes <= clock
    THEN "INVALID_TIME_PAST"
    ELSE IF schedule_time.minutes < clock + MinFutureMinutes
      THEN "INVALID_TIME_TOO_SOON"
      ELSE IF schedule_time.minutes > clock + MaxFutureMinutes
        THEN "INVALID_TIME_TOO_FAR"
        ELSE "OK"

(***************************************************************************)
(* list.sort(key=lambda p: p.schedule_time): a stable insertion of every   *)
(* record behind the records whose key is not larger.                      *)
(***************************************************************************)
RECURSIVE SortedInsert(_, _)
SortedInsert(sorted, p) ==
  IF sorted = <<>>
    THEN <<p>>
    ELSE IF sorted[Len(sorted)].schedule_time.minutes <= p.schedule_time.minutes
      THEN Append(sorted, p)
      ELSE Append(SortedInsert(SubSeq(sorted, 1, Len(sorted) - 1), p),
                  sorted[Len(sorted)])

\* a sort that leaves the list as it is
SortByScheduleTime_unsorted(posts) == posts

RECURSIVE SortByScheduleTime(_)
SortByScheduleTime(posts) ==
  IF posts = <<>>
    THEN <<>>
    ELSE SortedInsert(SortByScheduleTime(SubSeq(posts, 1, Len(posts) - 1)),
                      posts[Len(posts)])

\* comparing the keys raises TypeError when two or more records are compared
\* and one of the keys is None
SortRaises(posts) ==
  /\ Len(posts) >= 2
  /\ \E i \in 1..Len(posts) : IsNone(posts[i].schedule_time)

\* the orders a list can be left in when its sort raised
Rearrangements(posts) ==
  {[i \in 1..Len(posts) |-> posts[f[i]]] : f \in Permutations(1..Len(posts))}

\* [post for post in posts if post.status == status_filter]
RECURSIVE FilterByStatus(_, _)
FilterByStatus(posts, status) ==
  IF posts = <<>>
    THEN <<>>
    ELSE IF Head(posts).status = status
      THEN <<Head(posts)>> \o FilterByStatus(Tail(posts), status)
      ELSE FilterByStatus(Tail(posts), status)

\* [post for post in posts if post.id != post_id]
\* a removal that empties the list when it finds the id
WithoutId_all(posts, post_id) ==
  IF \E i \in 1..Len(posts) : posts[i].id = post_id THEN <<>> ELSE posts

RECURSIVE WithoutId(_, _)
WithoutId(posts, post_id) ==
  IF posts = <<>>
    THEN <<>>
    ELSE IF Head(posts).id # post_id
      THEN <<Head(posts)>> \o WithoutId(Tail(posts), post_id)
      ELSE WithoutId(Tail(posts), post_id)

\* posts[:limit] for a limit >= 0
Slice(posts, limit) ==
  SubSeq(posts, 1, IF limit < Len(posts) THEN limit ELSE Len(posts))

\* a lookup that takes the first record whatever its id
IndexOfId_first(posts, post_id) == IF posts = <<>> THEN 0 ELSE 1

\* get_post_by_id: the index of the first record with that id, 0 when none
IndexOfId(posts, post_id) ==
  IF \E i \in 1..Len(posts) : posts[i].id = post_id
    THEN CHOOSE i \in 1..Len(posts) :
           /\ posts[i].id = post_id
           /\ \A j \in 1..(i - 1) : posts[j].id # post_id
    ELSE 0

(***************************************************************************)
(* Inputs                                                                  *)
(***************************************************************************)
TimeOffsets == {0, MinFutureMinutes - 1, MinFutureMinutes,
                MinFutureMinutes + 1, MaxFutureMinutes, MaxFutureMinutes + 1}
Messages == {Str("hello")}
Links == {Str("http://l")}
ImagePaths == {[path |-> Str("a.png"), exists |-> TRUE],
               [path |-> Str("gone.png"), exists |-> FALSE]}
CreateRecurrences == {RecurrenceType("NONE")}
PostIds == 1..MaxIds
StatusFilters == {None, PostStatus("SCHEDULED")}
Limits == {None, PyInt(0), PyInt(1)}

\* the file-system outcomes a call can meet
IoChoices == IF ioFailures < MaxIoFailures THEN IoOutcomes ELSE {"ok"}
IoCount(io) == IF io = "ok" THEN ioFailures ELSE ioFailures + 1

\* uuid4 returning the same value again
uuid4_repeated(next) == 1

\* uuid.uuid4(): a value no earlier call returned
uuid4(next) == next

Init ==
  /\ queue = <<>>
  /\ file = FileAbsent
  /\ now = 0
  /\ nextId = 1
  /\ everIds = {}
  /\ call = [op |-> "__init__", at |-> 0]
  /\ ret = Returned(None)
  /\ calls = 0
  /\ ioFailures = 0
  /\ saveFailed = FALSE
  /\ other = <<>>
  /\ call_history = <<>>
  /\ api_time = 0
  /\ request = [at |-> 0, sent |-> FALSE, response |-> FALSE,
                raised |-> "-"]

\* the wall clock advances between two calls
TickSteps == {MinFutureMinutes + 1}

Tick ==
  /\ calls < MaxCalls
  /\ calls' = calls + 1
  /\ \E d \in TickSteps : now' = now + d
  /\ call' = [op |-> "tick", at |-> now']
  /\ ret' = Returned(None)
  /\ UNCHANGED <<queue, file, nextId, everIds, ioFailures, saveFailed>>
  /\ UNCHANGED outside

\* append and save with the append taken back when the save raises
AppendAndSave_rollback(post, io) ==
  LET s == save_queue(Append(queue, post), file, io)
  IN /\ queue' = IF s.raised THEN queue ELSE Append(queue, post)
     /\ nextId' = nextId + 1
     /\ everIds' = everIds \cup {post.id}
     /\ file' = s.file
     /\ ioFailures' = IoCount(io)
     /\ saveFailed' = (saveFailed \/ s.raised)
     /\ ret' = IF s.raised THEN Raise("SAVE_ERROR") ELSE Returned(post)

\* the part the two scheduling methods share: append, save, return
AppendAndSave(post, io) ==
  LET s == save_queue(Append(queue, post), file, io)
  IN /\ queue' = Append(queue, post)
     /\ nextId' = nextId + 1
     /\ everIds' = everIds \cup {post.id}
     /\ file' = s.file
     /\ ioFailures' = IoCount(io)
     /\ saveFailed' = (saveFailed \/ s.raised)
     /\ ret' = IF s.raised THEN Raise("SAVE_ERROR") ELSE Returned(post)

schedule_text_post ==
  \E message \in Messages, off \in TimeOffsets, link \in Links,
     recurrence \in CreateRecurrences, io \in IoChoices :
    LET schedule_time == Dt(now + off)
        v == validate_schedule_time(schedule_time, now)
        post == ScheduledPost(uuid4(nextId), "text", message, schedule_time,
                              link, None, None, recurrence, None, now)
    IN /\ calls < MaxCalls
       /\ nextId <= MaxIds
       /\ calls' = calls + 1
       /\ call' = [op |-> "schedule_text_post", at |-> now,
                   schedule_time |-> schedule_time]
       /\ IF v # "OK"
            THEN /\ io = "ok"
                 /\ ret' = Raise(v)
                 /\ UNCHANGED <<queue, file, nextId, everIds, ioFailures,
                                saveFailed>>
            ELSE AppendAndSave(post, io)
       /\ UNCHANGED now
       /\ UNCHANGED outside

\* schedule_image_post without the look at the file system
image_check_skipped(exists) == "OK"

\* os.path.exists(image_path): "OK" or the code of the SchedulingError
image_check(exists) == IF exists THEN "OK" ELSE "IMAGE_NOT_FOUND"

schedule_image_post ==
  \E message \in Messages, off \in TimeOffsets, image \in ImagePaths,
     recurrence \in CreateRecurrences, io \in IoChoices :
    LET schedule_time == Dt(now + off)
        v == validate_schedule_time(schedule_time, now)
        post == ScheduledPost(uuid4(nextId), "image", message, schedule_time,
                              None, image.path, None, recurrence, None, now)
    IN /\ calls < MaxCalls
       /\ nextId <= MaxIds
       /\ calls' = calls + 1
       /\ call' = [op |-> "schedule_image_post", at |-> now,
                   schedule_time |-> schedule_time,
                   image_exists |-> image.exists]
       /\ IF v # "OK" \/ image_check(image.exists) # "OK"
            THEN /\ io = "ok"
                 /\ ret' = Raise(IF v # "OK" THEN v
                                            ELSE image_check(image.exists))
                 /\ UNCHANGED <<queue, file, nextId, everIds, ioFailures,
                                saveFailed>>
            ELSE AppendAndSave(post, io)
       /\ UNCHANGED now
       /\ UNCHANGED outside

get_scheduled_posts ==
  \E status_filter \in StatusFilters, limit \in Limits :
    LET aliased == ~Truthy(status_filter)
        posts == IF aliased THEN queue
                            ELSE FilterByStatus(queue, status_filter)
        sorted == SortByScheduleTime(posts)
    IN /\ calls < MaxCalls
       /\ calls' = calls + 1
       /\ call' = [op |-> "get_scheduled_posts", at |-> now,
                   status_filter |-> status_filter, limit |-> limit]
       /\ IF SortRaises(posts)
            THEN /\ ret' = RaiseOther("TypeError")
                 /\ IF aliased THEN queue' \in Rearrangements(queue)
                               ELSE queue' = queue
            ELSE /\ queue' = IF aliased THEN sorted ELSE queue
                 /\ ret' = Returned(IF Truthy(limit)
                                      THEN Slice(sorted, limit.val)
                                      ELSE sorted)
       /\ UNCHANGED <<file, now, nextId, everIds, ioFailures,
                      saveFailed>>
       /\ UNCHANGED outside

get_post_by_id ==
  \E post_id \in PostIds :
    LET i == IndexOfId(queue, post_id)
    IN /\ calls < MaxCalls
       /\ calls' = calls + 1
       /\ call' = [op |-> "get_post_by_id", at |-> now, post_id |-> post_id]
       /\ ret' = Returned(IF i = 0 THEN None ELSE queue[i])
       /\ UNCHANGED <<queue, file, now, nextId, everIds, ioFailures,
                      saveFailed>>
       /\ UNCHANGED outside

\* setattr(post, field, value)
SetAttr(p, field, value) ==
  CASE field = "message" -> [p EXCEPT !.message = value]
    [] field = "schedule_time" -> [p EXCEPT !.schedule_time = value]
    [] field = "link" -> [p EXCEPT !.link = value]
    [] field = "alt_text" -> [p EXCEPT !.alt_text = value]
    [] field = "recurrence" -> [p EXCEPT !.recurrence = value]
    [] field = "recurrence_end" -> [p EXCEPT !.recurrence_end = value]
    [] field = "status" -> [p EXCEPT !.status = value]
    [] field = "id" -> [p EXCEPT !.id = value]

\* allowed_fields with the identifier among the names a caller may set
allowed_fields_with_id == {"id", "message", "schedule_time", "link", "alt_text",
                           "recurrence", "recurrence_end", "status"}

allowed_fields == {"message", "schedule_time", "link", "alt_text",
                   "recurrence", "recurrence_end", "status"}

\* the loop with updated_at assigned after it, whatever kwargs named
RECURSIVE UpdateLoop_always_stamps(_, _, _)
UpdateLoop_always_stamps(p, kwargs, clock) ==
  IF kwargs = <<>>
    THEN [post |-> [p EXCEPT !.updated_at = Dt(clock)], error |-> "OK"]
    ELSE LET field == Head(kwargs)[1]
             value == Head(kwargs)[2]
             v == IF field = "schedule_time" /\ Truthy(value)
                    THEN validate_schedule_time(value, clock)
                    ELSE "OK"
         IN IF field \notin allowed_fields
              THEN UpdateLoop_always_stamps(p, Tail(kwargs), clock)
              ELSE IF v # "OK"
                THEN [post |-> p, error |-> v]
                ELSE UpdateLoop_always_stamps(SetAttr(p, field, value),
                                              Tail(kwargs), clock)

\* the loop of update_scheduled_post over kwargs.items(), in the order the
\* caller wrote them: the record as the loop leaves it, and "OK" or the code
\* of the SchedulingError that ended the loop
RECURSIVE UpdateLoop(_, _, _)
UpdateLoop(p, kwargs, clock) ==
  IF kwargs = <<>>
    THEN [post |-> p, error |-> "OK"]
    ELSE LET field == Head(kwargs)[1]
             value == Head(kwargs)[2]
             v == IF field = "schedule_time" /\ Truthy(value)
                    THEN validate_schedule_time(value, clock)
                    ELSE "OK"
         IN IF field \notin allowed_fields
              THEN UpdateLoop(p, Tail(kwargs), clock)
              ELSE IF v # "OK"
                THEN [post |-> p, error |-> v]
                ELSE UpdateLoop(
                       [SetAttr(p, field, value) EXCEPT !.updated_at = Dt(clock)],
                       Tail(kwargs), clock)

\* keyword arguments of update_scheduled_post
LongMessage ==
  Str("0123456789012345678901234567890123456789012345678901234")
ScheduleTimeItems(clock) ==
  {<<"schedule_time", None>>} \cup
  {<<"schedule_time", Dt(clock + off)>> :
     off \in {MinFutureMinutes - 1, MinFutureMinutes,
              MaxFutureMinutes + 1}}
OtherItems(clock) ==
  {<<"message", LongMessage>>,
   <<"link", Str("http://m")>>,
   <<"alt_text", Str("alt")>>,
   <<"recurrence", RecurrenceType("WEEKLY")>>,
   <<"recurrence_end", Dt(clock + MaxFutureMinutes)>>,
   <<"status", PostStatus("POSTED")>>,
   <<"status", PostStatus("SCHEDULED")>>,
   <<"id", 99>>}
UpdateKwargs(clock) ==
  {<<>>}
  \cup {<<a>> : a \in ScheduleTimeItems(clock) \cup OtherItems(clock)}
  \cup {<<<<"message", LongMessage>>, <<"schedule_time", Dt(clock)>>>>,
        <<<<"schedule_time", Dt(clock)>>, <<"message", LongMessage>>>>}

update_scheduled_post ==
  \E post_id \in PostIds, kwargs \in UpdateKwargs(now), io \in IoChoices :
    LET i == IndexOfId(queue, post_id)
        u == UpdateLoop(queue[i], kwargs, now)
        q2 == [queue EXCEPT ![i] = u.post]
        s == save_queue(q2, file, io)
    IN /\ calls < MaxCalls
       /\ calls' = calls + 1
       /\ call' = [op |-> "update_scheduled_post", at |-> now,
                   post_id |-> post_id, kwargs |-> kwargs]
       /\ IF i = 0
            THEN /\ io = "ok"
                 /\ ret' = Returned(None)
                 /\ UNCHANGED <<queue, file, ioFailures, saveFailed>>
            ELSE IF u.error # "OK"
              THEN /\ io = "ok"
                   /\ queue' = q2
                   /\ ret' = Raise(u.error)
                   /\ UNCHANGED <<file, ioFailures, saveFailed>>
              ELSE /\ queue' = q2
                   /\ file' = s.file
                   /\ ioFailures' = IoCount(io)
                   /\ saveFailed' = (saveFailed \/ s.raised)
                   /\ ret' = IF s.raised THEN Raise("SAVE_ERROR")
                                         ELSE Returned(u.post)
       /\ UNCHANGED <<now, nextId, everIds>>
       /\ UNCHANGED outside

\* cancel_scheduled_post that also assigns created_at
CancelAt_resets_created(posts, i, clock) ==
  [posts EXCEPT ![i] = [@ EXCEPT !.status = PostStatus("CANCELLED"),
                                 !.created_at = Dt(clock),
                                 !.updated_at = Dt(clock)]]

\* cancel_scheduled_post that takes the record out of the list
CancelAt_hard_delete(posts, i, clock) ==
  [j \in 1..(Len(posts) - 1) |-> IF j < i THEN posts[j] ELSE posts[j + 1]]

\* cancel_scheduled_post without the new updated_at
CancelAt_no_stamp(posts, i, clock) ==
  [posts EXCEPT ![i] = [@ EXCEPT !.status = PostStatus("CANCELLED")]]

\* cancel_scheduled_post that schedules a cancelled record again
CancelAt_toggle(posts, i, clock) ==
  [posts EXCEPT ![i] = [@ EXCEPT !.status =
                            IF @ = PostStatus("CANCELLED")
                              THEN PostStatus("SCHEDULED")
                              ELSE PostStatus("CANCELLED"),
                          !.updated_at = Dt(clock)]]

\* the queue after cancel_scheduled_post changed the record it found at i
CancelAt(posts, i, clock) ==
  [posts EXCEPT ![i] = [@ EXCEPT !.status = PostStatus("CANCELLED"),
                                 !.updated_at = Dt(clock)]]

cancel_scheduled_post ==
  \E post_id \in PostIds, io \in IoChoices :
    LET i == IndexOfId(queue, post_id)
        q2 == CancelAt(queue, i, now)
        s == save_queue(q2, file, io)
    IN /\ calls < MaxCalls
       /\ calls' = calls + 1
       /\ call' = [op |-> "cancel_scheduled_post", at |-> now,
                   post_id |-> post_id,
                   status_before |-> IF i = 0 THEN None ELSE queue[i].status]
       /\ IF i = 0
            THEN /\ io = "ok"
                 /\ ret' = Returned(FALSE)
                 /\ UNCHANGED <<queue, file, ioFailures, saveFailed>>
            ELSE /\ queue' = q2
                 /\ file' = s.file
                 /\ ioFailures' = IoCount(io)
                 /\ saveFailed' = (saveFailed \/ s.raised)
                 /\ ret' = IF s.raised THEN Raise("SAVE_ERROR")
                                       ELSE Returned(TRUE)
       /\ UNCHANGED <<now, nextId, everIds>>
       /\ UNCHANGED outside

remove_scheduled_post ==
  \E post_id \in PostIds, io \in IoChoices :
    LET q2 == WithoutId(queue, post_id)
        s == save_queue(q2, file, io)
    IN /\ calls < MaxCalls
       /\ calls' = calls + 1
       /\ call' = [op |-> "remove_scheduled_post", at |-> now,
                   post_id |-> post_id]
       /\ IF Len(q2) < Len(queue)
            THEN /\ queue' = q2
                 /\ file' = s.file
                 /\ ioFailures' = IoCount(io)
                 /\ saveFailed' = (saveFailed \/ s.raised)
                 /\ ret' = IF s.raised THEN Raise("SAVE_ERROR")
                                       ELSE Returned(TRUE)
            ELSE /\ io = "ok"
                 /\ ret' = Returned(FALSE)
                 /\ UNCHANGED <<queue, file, ioFailures, saveFailed>>
       /\ UNCHANGED <<now, nextId, everIds>>
       /\ UNCHANGED outside

\* the records get_queue_stats counts as upcoming, in queue order
RECURSIVE Upcoming(_, _)
Upcoming(posts, clock) ==
  IF posts = <<>>
    THEN <<>>
    ELSE IF /\ Head(posts).status = PostStatus("SCHEDULED")
            /\ clock <= Head(posts).schedule_time.minutes
            /\ Head(posts).schedule_time.minutes <= clock + UpcomingHours * MinutesPerHour
      THEN <<Head(posts)>> \o Upcoming(Tail(posts), clock)
      ELSE Upcoming(Tail(posts), clock)

\* the comparison with now raises TypeError for a scheduled record whose
\* schedule_time is None
UpcomingRaises(posts) ==
  \E i \in 1..Len(posts) :
    /\ posts[i].status = PostStatus("SCHEDULED")
    /\ IsNone(posts[i].schedule_time)

\* message[:50] + '...' if len(message) > 50 else message
MessagePreview(message) ==
  IF Len(message.chars) > PreviewLen
    THEN Str(SubSeq(message.chars, 1, PreviewLen) \o "...")
    ELSE message

QueueStats(posts, clock) ==
  LET upcoming_posts == Upcoming(posts, clock)
  IN [total_posts |-> Len(posts),
      status_breakdown |->
        [v \in {PostStatusValue(m) : m \in PostStatusMembers} |->
           Cardinality({i \in 1..Len(posts) :
                          posts[i].status.tag = "PostStatus"
                          /\ PostStatusValue(posts[i].status) = v})],
      upcoming_24h |-> Len(upcoming_posts),
      next_post |->
        IF upcoming_posts # <<>>
          THEN [id |-> upcoming_posts[1].id,
                schedule_time |-> IsoFormat(upcoming_posts[1].schedule_time),
                message_preview |-> MessagePreview(upcoming_posts[1].message)]
          ELSE None]

get_queue_stats ==
  /\ calls < MaxCalls
  /\ calls' = calls + 1
  /\ call' = [op |-> "get_queue_stats", at |-> now]
  /\ ret' = IF UpcomingRaises(queue) THEN RaiseOther("TypeError")
                                     ELSE Returned(QueueStats(queue, now))
  /\ UNCHANGED <<queue, file, now, nextId, everIds, ioFailures, saveFailed>>
  /\ UNCHANGED outside

Next ==
  \/ Tick
  \/ schedule_text_post
  \/ schedule_image_post
  \/ get_scheduled_posts
  \/ get_post_by_id
  \/ update_scheduled_post
  \/ cancel_scheduled_post
  \/ remove_scheduled_post
  \/ get_queue_stats

Spec == Init /\ [][Next]_vars

(***************************************************************************)
(* The HTTP handlers of main.py for PUT and DELETE                         *)
(* /api/posts/schedule/{post_id}: the status code of the response, given   *)
(* what the call on the store returned or raised.                          *)
(***************************************************************************)
HTTPException(status_code) ==
  [tag |-> "raise", exc |-> "HTTPException", code |-> status_code]

HttpOk == 200
HttpBadRequest == 400
HttpNotFound == 404
HttpServerError == 500

\* update_scheduled_post of main.py: the try block raises 404 when the store
\* returned None; except SchedulingError and except ValueError answer 400,
\* except Exception, which HTTPException is, answers 500
api_update_scheduled_post(result) ==
  LET body == IF result.tag = "raise" THEN result
              ELSE IF result.val = None THEN HTTPException(HttpNotFound)
              ELSE Returned(HttpOk)
  IN IF body.tag = "return" THEN body.val
     ELSE IF body.exc \in {"SchedulingError", "ValueError"}
       THEN HttpBadRequest
       ELSE HttpServerError

\* cancel_scheduled_post of main.py: the try block raises 404 when the store
\* returned False; the only handler is except Exception, which answers 500
api_cancel_scheduled_post(result) ==
  LET body == IF result.tag = "raise" THEN result
              ELSE IF ~result.val THEN HTTPException(HttpNotFound)
              ELSE Returned(HttpOk)
  IN IF body.tag = "return" THEN body.val ELSE HttpServerError

(***************************************************************************)
(* Stores built on a file that exists: PostQueue(storage_path) loads the   *)
(* file, a process can stop and be started again, and two stores can be    *)
(* built on the same file.                                                 *)
(***************************************************************************)
\* PostQueue.__init__: the queue of the new store and what the call raised
construct(f) ==
  LET l == load_queue(f)
  IN [queue |-> l.queue,
      ret |-> IF l.raised THEN Raise("LOAD_ERROR") ELSE Returned(None)]

\* a record as save_queue writes it
StoredRecord ==
  to_dict(ScheduledPost(1, "text", Str("hello"), Dt(MinFutureMinutes),
                        Str("http://l"), None, None, RecurrenceType("NONE"),
                        None, 0))

WithoutKey(d, key) == [k \in (DOMAIN d) \ {key} |-> d[k]]

\* what the file at storage_path can hold when a store is built on it
InitialFiles ==
  {FileAbsent,
   FileTruncated,
   FileJson(<<>>),
   FileJson(<<StoredRecord>>),
   FileJson(<<WithoutKey(StoredRecord, "link")>>),
   FileJson(<<WithoutKey(StoredRecord, "message")>>),
   FileJson(<<[StoredRecord EXCEPT !.status = Str("done")]>>),
   FileJson(<<[StoredRecord EXCEPT !.recurrence = Str("yearly")]>>),
   FileJson(<<[StoredRecord EXCEPT !.schedule_time = None]>>)}

\* two stores were built on the same file
InitStores ==
  \E f \in InitialFiles :
    LET c == construct(f)
    IN /\ file = f
       /\ queue = c.queue
       /\ other = c.queue
       /\ now = 0
       /\ nextId = 1 + Len(c.queue)
       /\ everIds = {c.queue[i].id : i \in 1..Len(c.queue)}
       /\ call = [op |-> "__init__", at |-> 0, crash |-> "none"]
       /\ ret = c.ret
       /\ calls = 0
       /\ ioFailures = 0
       /\ saveFailed = FALSE
       /\ call_history = <<>>
       /\ api_time = 0
       /\ request = [at |-> 0, sent |-> FALSE, response |-> FALSE,
                     raised |-> "-"]

\* the constructor raised: there is no store object to call
Alive == ~(call.op = "__init__" /\ ret.tag = "raise")

\* where the process stopped: not at all (an orderly restart), after a
\* mutation in memory and before open(..., 'w'), or after open(..., 'w')
\* emptied the file and before json.dump completed
CrashPoints == {"none", "before_write", "during_write"}

\* a restart after which the store still holds what was in memory
Restart_keeps_memory ==
  \E crash \in CrashPoints :
    LET f2 == IF crash = "during_write" THEN FileTruncated ELSE file
        c == construct(f2)
    IN /\ calls < MaxStoreCalls
       /\ crash # "none" => Alive
       /\ calls' = calls + 1
       /\ file' = f2
       /\ queue' = queue
       /\ call' = [op |-> "__init__", at |-> now, crash |-> crash]
       /\ ret' = c.ret
       /\ UNCHANGED <<now, nextId, everIds, ioFailures, saveFailed, other>>
       /\ UNCHANGED client

\* the process stops and a new store is built on the file
Restart ==
  \E crash \in CrashPoints :
    LET f2 == IF crash = "during_write" THEN FileTruncated ELSE file
        c == construct(f2)
    IN /\ calls < MaxStoreCalls
       /\ crash # "none" => Alive
       /\ calls' = calls + 1
       /\ file' = f2
       /\ queue' = c.queue
       /\ call' = [op |-> "__init__", at |-> now, crash |-> crash]
       /\ ret' = c.ret
       /\ UNCHANGED <<now, nextId, everIds, ioFailures, saveFailed, other>>
       /\ UNCHANGED client

\* the next calls are made on the other store
SwitchStore ==
  /\ Alive
  /\ queue' = other
  /\ other' = queue
  /\ call' = [op |-> "switch", at |-> now]
  /\ ret' = Returned(None)
  /\ UNCHANGED <<file, now, nextId, everIds, calls, ioFailures, saveFailed>>
  /\ UNCHANGED client

\* a call on the store in use, or the clock advances
StoreCall == Alive /\ calls < MaxStoreCalls /\ Next

NextStores ==
  \/ StoreCall
  \/ Restart
  \/ SwitchStore

SpecStores == InitStores /\ [][NextStores]_vars

(***************************************************************************)
(* The rate limiter of the Graph API client (facebook_api.py): one caller, *)
(* one FacebookAPI object.                                                 *)
(***************************************************************************)
\* the times time.time() takes in the model: the start, one second before
\* the first calls leave the window, and the second they leave it
ApiTimes == {0, RATE_LIMIT_WINDOW - 1, RATE_LIMIT_WINDOW}

\* how long session.request takes, in seconds
RequestDurations == {0, 1}

\* what session.request does: a response that _make_request returns, a
\* response it raises on (an 'error' body or an HTTP error status), or a
\* network exception
RequestOutcomes == {"ok", "error_response", "network_error"}

\* the first half of _check_rate_limit: the calls younger than the window
RecentCalls(history, current_time) ==
  SelectSeq(history, LAMBDA call_time :
                       current_time - call_time < RATE_LIMIT_WINDOW)

\* a limit test that lets one call more through
at_limit_one_late(history) == Len(history) > RATE_LIMIT_CALLS

\* the second half of _check_rate_limit: whether RateLimitError is raised
at_limit(history) == Len(history) >= RATE_LIMIT_CALLS

\* time passes between two requests
ApiTick ==
  /\ \E t \in ApiTimes : t > api_time /\ api_time' = t
  /\ UNCHANGED <<call_history, request>>
  /\ UNCHANGED <<queue, file, now, nextId, everIds, call, ret, calls,
                 ioFailures, saveFailed, other>>

\* _make_request: the rate check, then session.request, then the record
make_request ==
  \E outcome \in RequestOutcomes, d \in RequestDurations :
    LET recent == RecentCalls(call_history, api_time)
        done == api_time + d
    IN /\ IF at_limit(recent)
            THEN /\ outcome = "ok"
                 /\ d = 0
                 /\ call_history' = recent
                 /\ api_time' = api_time
                 /\ request' = [at |-> api_time, sent |-> FALSE,
                                response |-> FALSE,
                                raised |-> "RateLimitError"]
            ELSE /\ done \in ApiTimes
                 /\ api_time' = done
                 /\ IF outcome = "network_error"
                      THEN /\ call_history' = recent
                           /\ request' = [at |-> api_time, sent |-> TRUE,
                                          response |-> FALSE,
                                          raised |-> "FacebookAPIError"]
                      ELSE /\ call_history' = Append(recent, done)
                           /\ request' = [at |-> api_time, sent |-> TRUE,
                                          response |-> TRUE,
                                          raised |-> IF outcome = "ok"
                                                      THEN "-"
                                                      ELSE "FacebookAPIError"]
       /\ UNCHANGED <<queue, file, now, nextId, everIds, call, ret, calls,
                      ioFailures, saveFailed, other>>

\* get_api_usage drops the calls older than the window
get_api_usage ==
  /\ call_history' = RecentCalls(call_history, api_time)
  /\ UNCHANGED <<api_time, request>>
  /\ UNCHANGED <<queue, file, now, nextId, everIds, call, ret, calls,
                 ioFailures, saveFailed, other>>

NextApi ==
  \/ ApiTick
  \/ make_request
  \/ get_api_usage

SpecApi == Init /\ [][NextApi]_vars

(***************************************************************************)
(* Properties                                                              *)
(***************************************************************************)
ScheduleOps == {"schedule_text_post", "schedule_image_post"}
TimeErrors == {"INVALID_TIME_PAST", "INVALID_TIME_TOO_SOON",
               "INVALID_TIME_TOO_FAR"}

\* the step just taken is a call of one of the operations ops
Called(ops) == calls' = calls + 1 /\ call'.op \in ops

IdsOf(posts) == {posts[i].id : i \in 1..Len(posts)}

\* C1: every successful schedule_text_post or schedule_image_post call
\* appends exactly one record to the collection and returns it with status
\* scheduled, and its id differs from the id of every record that is or
\* ever was in the store, removed records included.
C1_ScheduleAppendsFreshRecord ==
  [][(Called(ScheduleOps) /\ ret'.tag = "return") =>
       /\ queue' = Append(queue, ret'.val)
       /\ ret'.val.status = PostStatus("SCHEDULED")
       /\ ret'.val.id \notin everIds
       /\ ret'.val.id \notin IdsOf(queue)]_vars

\* a post was scheduled successfully after an earlier record was removed
C1_Witness ==
  /\ call.op \in ScheduleOps
  /\ ret.tag = "return"
  /\ queue # <<>>
  /\ queue[Len(queue)] = ret.val
  /\ Cardinality(everIds) > Len(queue)

\* C2: a schedule call is rejected with INVALID_TIME_PAST when t <= now,
\* else with INVALID_TIME_TOO_SOON when t < now + 10 minutes, else with
\* INVALID_TIME_TOO_FAR when t > now + 365 days, and then neither the
\* collection nor the file changes; every other t passes the time rule.
C2_TimeRule ==
  [][Called(ScheduleOps) =>
       LET t == call'.schedule_time.minutes
           n == call'.at
           expected ==
             IF t <= n THEN "INVALID_TIME_PAST"
             ELSE IF t < n + MinFutureMinutes THEN "INVALID_TIME_TOO_SOON"
             ELSE IF t > n + MaxFutureMinutes THEN "INVALID_TIME_TOO_FAR"
             ELSE "OK"
       IN IF expected = "OK"
            THEN ~(ret'.tag = "raise" /\ ret'.code \in TimeErrors)
            ELSE /\ ret' = Raise(expected)
                 /\ queue' = queue
                 /\ file' = file]_vars

\* a schedule call was rejected as too far ahead while the store held a record
C2_Witness ==
  /\ call.op \in ScheduleOps
  /\ ret = Raise("INVALID_TIME_TOO_FAR")
  /\ call.schedule_time.minutes = call.at + MaxFutureMinutes + 1
  /\ queue # <<>>
  /\ file.kind = "json"

\* C3 as stated: every creation whose schedule_time is at most now + 10
\* minutes, the value now + 10 minutes included, fails with a scheduling
\* error.
C3_AsStated ==
  (/\ call.op \in ScheduleOps
   /\ call.schedule_time.minutes <= call.at + MinFutureMinutes)
    => ret.tag = "raise"

\* C3, amended: every creation whose schedule_time is before now + 10
\* minutes fails with INVALID_TIME_PAST or INVALID_TIME_TOO_SOON and adds no
\* record; a schedule_time equal to now + 10 minutes passes the time rule.
C3_LeadTimeStrict ==
  [][Called(ScheduleOps) =>
       LET t == call'.schedule_time.minutes
           n == call'.at
       IN /\ t < n + MinFutureMinutes =>
               /\ ret'.tag = "raise"
               /\ ret'.code \in {"INVALID_TIME_PAST", "INVALID_TIME_TOO_SOON"}
               /\ queue' = queue
          /\ t = n + MinFutureMinutes =>
               ~(ret'.tag = "raise" /\ ret'.code \in TimeErrors)]_vars

\* a post was created for exactly now + 10 minutes
C3_Witness ==
  /\ call.op \in ScheduleOps
  /\ call.schedule_time.minutes = call.at + MinFutureMinutes
  /\ ret.tag = "return"
  /\ ret.val.schedule_time = call.schedule_time
  /\ queue # <<>>

\* C4: when update_scheduled_post fails because the time rule rejects the
\* schedule_time of the update, the store is as before the call: every
\* field of every record, and the file.
C4_FailedUpdateKeepsStore ==
  [][(/\ Called({"update_scheduled_post"})
      /\ ret'.tag = "raise"
      /\ ret'.code \in TimeErrors)
       => (queue' = queue /\ file' = file)]_vars

\* C5: get_scheduled_posts returns its records in ascending order of
\* schedule_time, with or without a status filter or a limit.
C5_ResultAscending ==
  (call.op = "get_scheduled_posts" /\ ret.tag = "return") =>
    \A i, j \in 1..Len(ret.val) :
      i < j => ret.val[i].schedule_time.minutes
                 <= ret.val[j].schedule_time.minutes

\* two records came back in another order than they were created in
C5_Witness ==
  /\ call.op = "get_scheduled_posts"
  /\ ret.tag = "return"
  /\ Len(ret.val) = 2
  /\ ret.val[1].id > ret.val[2].id
  /\ ret.val[1].schedule_time.minutes < ret.val[2].schedule_time.minutes

\* C6: for every integer N >= 0, get_scheduled_posts(limit=N) returns at
\* most N records, so limit=0 returns no records.
C6_LimitBoundsResult ==
  (/\ call.op = "get_scheduled_posts"
   /\ ret.tag = "return"
   /\ call.limit.tag = "int")
    => Len(ret.val) <= call.limit.val

\* C7: get_scheduled_posts does not mutate state: the in-memory collection
\* holds the same records in the same order after the call as before it.
C7_GetKeepsQueue ==
  [][Called({"get_scheduled_posts"}) => queue' = queue]_vars

\* what save_queue writes for a collection
Persisted(posts) ==
  IF \A i \in 1..Len(posts) : CanToDict(posts[i])
    THEN FileJson([i \in 1..Len(posts) |-> to_dict(posts[i])])
    ELSE FileTruncated

\* C8: when no save has failed, the persisted JSON document equals the
\* in-memory collection: same records, same field values, same order.
C8_FileEqualsQueue ==
  ~saveFailed =>
    \/ file = Persisted(queue)
    \/ (file = FileAbsent /\ queue = <<>>)

\* C9: for every collection reachable through store operations, saving it
\* with save_queue and loading it with load_queue in a new store reproduces
\* an identical collection.
C9_RoundTrip ==
  LET saved == save_queue(queue, file, "ok")
      loaded == load_queue(saved.file)
  IN /\ ~saved.raised
     /\ ~loaded.raised
     /\ loaded.queue = queue

TerminalStatuses == {PostStatus("POSTED"), PostStatus("CANCELLED"),
                     PostStatus("FAILED")}

\* C10: posted, cancelled and failed are terminal: once a record's status is
\* one of them, no store operation changes that record's status.
C10_TerminalStatusKept ==
  [][\A i \in 1..Len(queue) : \A j \in 1..Len(queue') :
       (queue[i].status \in TerminalStatuses /\ queue'[j].id = queue[i].id)
         => queue'[j].status = queue[i].status]_vars

EmptyUpdateOfKnownId ==
  /\ Called({"update_scheduled_post"})
  /\ call'.kwargs = <<>>
  /\ call'.post_id \in IdsOf(queue)

C14_UpdateSynthesizesNothing ==
  [][Called({"update_scheduled_post"}) =>
       /\ IdsOf(queue') = IdsOf(queue)
       /\ Len(queue') = Len(queue)
       /\ (call'.post_id \notin IdsOf(queue) =>
             /\ ret' = Returned(None)
             /\ queue' = queue
             /\ file' = file)]_vars

\* an update of an unknown id on a store that holds a record
C14_Witness ==
  /\ call.op = "update_scheduled_post"
  /\ queue # <<>>
  /\ call.post_id \notin IdsOf(queue)
  /\ ret = Returned(None)
  /\ call.kwargs # <<>>

\* the names of the keyword arguments
NamesOf(kwargs) == {kwargs[k][1] : k \in 1..Len(kwargs)}

UpdatableFields ==
  {"message", "schedule_time", "link", "alt_text", "recurrence",
   "recurrence_end", "status"}
ImmutableFields ==
  {"id", "post_type", "created_at", "image_path", "facebook_post_id",
   "execution_attempts", "last_error"}

\* C15: an update_scheduled_post call that returns a record changed only the
\* fields it named among message, schedule_time, link, alt_text, recurrence,
\* recurrence_end and status, plus updated_at; other names are ignored
\* without error; id, post_type, created_at, image_path, facebook_post_id,
\* execution_attempts and last_error of the target and all fields of every
\* other record are unchanged.
C15_UpdateFrame ==
  [][(Called({"update_scheduled_post"}) /\ call'.post_id \in IdsOf(queue)) =>
       LET i == IndexOfId(queue, call'.post_id)
           named == NamesOf(call'.kwargs)
       IN /\ (named \cap UpdatableFields = {} =>
                ret' \in {Returned(queue[i]), Raise("SAVE_ERROR")})
          /\ (ret'.tag = "return" =>
                /\ ret'.val = queue'[i]
                /\ Len(queue') = Len(queue)
                /\ \A j \in 1..Len(queue) : j # i => queue'[j] = queue[j]
                /\ \A f \in ImmutableFields : queue'[i][f] = queue[i][f]
                /\ \A f \in UpdatableFields \ named :
                     queue'[i][f] = queue[i][f])]_vars

\* an update that named only the identifier returned the record
C15_Witness ==
  /\ call.op = "update_scheduled_post"
  /\ call.kwargs = <<(<<"id", 99>>)>>
  /\ ret.tag = "return"
  /\ ret.val # None
  /\ ret.val.id = call.post_id
  /\ Len(queue) = 2

\* C16: whenever schedule_time is among the fields of an
\* update_scheduled_post call, the call either fails with a scheduling error
\* or stores a value t with now + 10 minutes <= t <= now + 365 days, and
\* every record in the store has a schedule_time that is not None.
C16_UpdateChecksTime ==
  [][/\ (/\ Called({"update_scheduled_post"})
         /\ call'.post_id \in IdsOf(queue)
         /\ "schedule_time" \in NamesOf(call'.kwargs))
          => LET t == queue'[IndexOfId(queue, call'.post_id)].schedule_time
             IN \/ ret' \in {Raise(c) : c \in TimeErrors}
                \/ /\ t.tag = "datetime"
                   /\ t.minutes >= call'.at + MinFutureMinutes
                   /\ t.minutes <= call'.at + MaxFutureMinutes
     /\ \A j \in 1..Len(queue') : queue'[j].schedule_time # None]_vars

\* C17: in every reachable state a record with post_type text has no
\* image_path and a record with post_type image has no link.
C17_LinkOrImage ==
  \A j \in 1..Len(queue) :
    /\ queue[j].post_type = "text" => queue[j].image_path = None
    /\ queue[j].post_type = "image" => queue[j].link = None

\* C18: schedule_image_post with a valid schedule_time and an image_path
\* that names no existing file fails with IMAGE_NOT_FOUND, appends no record
\* and does not write the file.
C18_MissingImageRejected ==
  [][(/\ Called({"schedule_image_post"})
      /\ ~call'.image_exists
      /\ validate_schedule_time(call'.schedule_time, call'.at) = "OK")
       => /\ ret' = Raise("IMAGE_NOT_FOUND")
          /\ queue' = queue
          /\ file' = file]_vars

\* an image post with a valid time and a missing image was refused on a
\* store that holds a record
C18_Witness ==
  /\ call.op = "schedule_image_post"
  /\ ~call.image_exists
  /\ validate_schedule_time(call.schedule_time, call.at) = "OK"
  /\ ret = Raise("IMAGE_NOT_FOUND")
  /\ Len(queue) = 1
  /\ file = Persisted(queue)

C20_SoftDelete ==
  [][/\ (Len(queue') < Len(queue) \/ ~(IdsOf(queue) \subseteq IdsOf(queue')))
          => Called({"remove_scheduled_post"})
     /\ Called({"get_post_by_id"}) =>
          \A j \in 1..Len(queue) :
            (queue[j].id = call'.post_id
               /\ queue[j].status = PostStatus("CANCELLED"))
              => ret' = Returned(queue[j])]_vars

\* get_post_by_id returned a cancelled record
C20_Witness ==
  /\ call.op = "get_post_by_id"
  /\ ret.val # None
  /\ ret.val.status = PostStatus("CANCELLED")
  /\ ret.val.id = call.post_id

KnownStatusValues == {"scheduled", "pending", "posted", "failed", "cancelled"}
KnownRecurrenceValues == {"none", "daily", "weekly", "monthly"}

\* the file exists and is not a JSON array of complete records
Unparseable(f) ==
  \/ f.kind = "truncated"
  \/ /\ f.kind = "json"
     /\ \E i \in 1..Len(f.data) :
          LET d == f.data[i]
          IN \/ \E k \in RequiredKeys : k \notin DOMAIN d
             \/ d.status.chars \notin KnownStatusValues
             \/ d.recurrence.chars \notin KnownRecurrenceValues
             \/ \E k \in {"schedule_time", "created_at", "updated_at"} :
                  d[k].tag # "isostr"

\* C21: constructing a store loads the whole collection from the file: on
\* an absent file the store starts empty without error; on a file that
\* cannot be parsed into records construction fails with LOAD_ERROR; on any
\* other file the store holds one record per entry, in the file's order,
\* with the values the file gives.
C21_ConstructLoads ==
  call.op = "__init__" =>
    /\ file.kind = "absent" => (ret = Returned(None) /\ queue = <<>>)
    /\ Unparseable(file) => ret = Raise("LOAD_ERROR")
    /\ (file.kind = "json" /\ ~Unparseable(file)) =>
         /\ ret = Returned(None)
         /\ Len(queue) = Len(file.data)
         /\ \A i \in 1..Len(queue) :
              \A k \in DOMAIN file.data[i] :
                to_dict(queue[i])[k] = file.data[i][k]

\* a store was built on a file whose record lacks a required field
C21_Witness ==
  /\ call.op = "__init__"
  /\ file.kind = "json"
  /\ \E i \in 1..Len(file.data) : "message" \notin DOMAIN file.data[i]
  /\ ret = Raise("LOAD_ERROR")

\* C22: a schedule_text_post, schedule_image_post or update_scheduled_post
\* call that fails leaves the file unchanged.
C22_FailedCallKeepsFile ==
  [][(/\ Called(ScheduleOps \cup {"update_scheduled_post"})
      /\ ret'.tag = "raise")
       => file' = file]_vars

MutatingOps ==
  ScheduleOps \cup {"update_scheduled_post", "cancel_scheduled_post",
                    "remove_scheduled_post"}

\* the in-memory change of the mutating call of this step was made
MutationApplied ==
  LET op == call'.op
  IN CASE op \in ScheduleOps ->
            /\ Len(queue') = Len(queue) + 1
            /\ SubSeq(queue', 1, Len(queue)) = queue
            /\ queue'[Len(queue')].id \notin IdsOf(queue)
            /\ queue'[Len(queue')].schedule_time = call'.schedule_time
       [] op = "cancel_scheduled_post" ->
            queue'[IndexOfId(queue, call'.post_id)].status =
              PostStatus("CANCELLED")
       [] op = "remove_scheduled_post" ->
            /\ call'.post_id \notin IdsOf(queue')
            /\ Len(queue') = Len(queue) - 1
       [] op = "update_scheduled_post" ->
            \A k \in 1..Len(call'.kwargs) :
              call'.kwargs[k][1] \in UpdatableFields =>
                queue'[IndexOfId(queue, call'.post_id)][call'.kwargs[k][1]] =
                  call'.kwargs[k][2]

\* the mutating call of this step returned after a save
ReturnedAfterSave ==
  /\ ret'.tag = "return"
  /\ \/ call'.op \in ScheduleOps
     \/ call'.post_id \in IdsOf(queue)

\* C23: when save_queue fails on the file system inside a mutating
\* operation, the operation raises SAVE_ERROR, its in-memory mutation stays,
\* and the file is as before or emptied, not the new collection; a mutating
\* operation that returns after its save has written the whole in-memory
\* collection, earlier unsaved mutations included.
C23_FailedSaveKeepsMutation ==
  [][Called(MutatingOps) =>
       /\ ioFailures' > ioFailures =>
            /\ ret' = Raise("SAVE_ERROR")
            /\ MutationApplied
            /\ file' \in {file, FileTruncated}
       /\ ReturnedAfterSave =>
            /\ file' = Persisted(queue')
            /\ file'.kind = "json"]_vars

\* the save of the first schedule call failed and the second schedule call
\* wrote both records
C23_Witness ==
  /\ saveFailed
  /\ calls = 2
  /\ Len(queue) = 2
  /\ call.op \in ScheduleOps
  /\ ret.tag = "return"
  /\ file = Persisted(queue)
  /\ file.kind = "json"

\* the ids of the records in a file
FileIds(f) ==
  IF f.kind = "json" THEN {f.data[i].id : i \in 1..Len(f.data)} ELSE {}

\* C24: two stores on one file overwrite each other: a mutating call that
\* returns after its save leaves in the file exactly the records of the
\* store it was made on, it neither reads the file again nor changes the
\* other store, so a record only the other store holds is no longer in the
\* file.
C24_SaveWritesOwnCollection ==
  [][(Called(MutatingOps) /\ ReturnedAfterSave) =>
       /\ file' = Persisted(queue')
       /\ FileIds(file') = IdsOf(queue')
       /\ other' = other
       /\ \A j \in 1..Len(other) :
            other[j].id \notin IdsOf(queue') => other[j].id \notin FileIds(file')]_vars

\* each store scheduled one record, both calls returned, and the file holds
\* only the record of the store that saved last
C24_Witness ==
  /\ calls = 2
  /\ call.op \in ScheduleOps
  /\ ret.tag = "return"
  /\ ~saveFailed
  /\ Len(queue) = 1
  /\ Len(other) = 1
  /\ everIds = {queue[1].id, other[1].id}
  /\ queue[1].id # other[1].id
  /\ file = Persisted(queue)
  /\ other[1].id \notin FileIds(file)

\* the collection holds one record per entry of the file, with its values
HoldsFile(posts, f) ==
  IF f.kind = "absent"
    THEN posts = <<>>
    ELSE /\ f.kind = "json"
         /\ Len(posts) = Len(f.data)
         /\ \A i \in 1..Len(posts) :
              \A k \in DOMAIN f.data[i] : to_dict(posts[i])[k] = f.data[i][k]

\* C25: a store built after a crash holds exactly what the file holds, which
\* is what the last completed save wrote, or fails with LOAD_ERROR when the
\* file is one a write did not complete; a crash before the write leaves the
\* file as it was and a crash during the write leaves a file that does not
\* load; and the file only ever changes to the in-memory collection of a
\* mutating call or to an emptied file, so the new store holds nothing that
\* was not in memory at a save.
C25_RestartLoadsLastSave ==
  [][/\ Called({"__init__"}) =>
          /\ call'.crash # "during_write" => file' = file
          /\ call'.crash = "during_write" => ret' = Raise("LOAD_ERROR")
          /\ \/ ret' = Raise("LOAD_ERROR") /\ Unparseable(file')
             \/ ret' = Returned(None) /\ HoldsFile(queue', file')
     /\ file' # file =>
          \/ file' = FileTruncated
          \/ Called(MutatingOps) /\ file' = Persisted(queue')]_vars

\* a crash before the write: the new store holds the two records of the
\* last completed save
C25_Witness ==
  /\ call.op = "__init__"
  /\ call.crash = "before_write"
  /\ ret = Returned(None)
  /\ Len(queue) = 2
  /\ file = Persisted(queue)

\* the sum of the counts of a status breakdown
RECURSIVE SumOver(_, _)
SumOver(counts, keys) ==
  IF keys = {} THEN 0
  ELSE LET k == CHOOSE x \in keys : TRUE
       IN counts[k] + SumOver(counts, keys \ {k})

\* C26: in every reachable state get_queue_stats returns total_posts equal to
\* the number of records and a count for each of the five statuses whose sum
\* is total_posts, and changes nothing; on an empty store total_posts is 0,
\* every count is 0, upcoming_24h is 0 and next_post is None.
C26_StatsCounts ==
  [][Called({"get_queue_stats"}) =>
       /\ ret'.tag = "return"
       /\ ret'.val.total_posts = Len(queue)
       /\ DOMAIN ret'.val.status_breakdown = KnownStatusValues
       /\ SumOver(ret'.val.status_breakdown, KnownStatusValues) = Len(queue)
       /\ queue' = queue
       /\ file' = file
       /\ queue = <<>> =>
            /\ \A v \in KnownStatusValues : ret'.val.status_breakdown[v] = 0
            /\ ret'.val.upcoming_24h = 0
            /\ ret'.val.next_post = None]_vars

\* the records get_queue_stats counts as upcoming: scheduled, with a
\* schedule_time from now to now + 24 hours
UpcomingIndexes(posts, clock) ==
  {i \in 1..Len(posts) :
     /\ posts[i].status = PostStatus("SCHEDULED")
     /\ posts[i].schedule_time.tag = "datetime"
     /\ posts[i].schedule_time.minutes >= clock
     /\ posts[i].schedule_time.minutes <= clock + UpcomingHours * MinutesPerHour}

\* C27: the next_post that get_queue_stats returns is the earliest upcoming
\* post: an upcoming record whose schedule_time no upcoming record precedes,
\* whatever the order of the records.
C27_NextPostIsEarliest ==
  [][(Called({"get_queue_stats"}) /\ ret'.tag = "return") =>
       LET up == UpcomingIndexes(queue, call'.at)
       IN IF up = {}
            THEN ret'.val.next_post = None
            ELSE /\ ret'.val.next_post # None
                 /\ \E i \in up :
                      /\ queue[i].id = ret'.val.next_post.id
                      /\ \A j \in up : queue[i].schedule_time.minutes
                                         <= queue[j].schedule_time.minutes]_vars

\* C28: the HTTP handlers answer an update or a cancel of an id the store
\* does not hold with status 404.
C28_UnknownIdIs404 ==
  [][(/\ Called({"update_scheduled_post", "cancel_scheduled_post"})
      /\ call'.post_id \notin IdsOf(queue))
       => IF call'.op = "update_scheduled_post"
            THEN api_update_scheduled_post(ret') = HttpNotFound
            ELSE api_cancel_scheduled_post(ret') = HttpNotFound]_vars

\* C29: with a clock that does not go back, every record has updated_at >=
\* created_at; no step changes a record's created_at or lowers its
\* updated_at; and updated_at changes only in a cancel or in an update that
\* names at least one allowed field.
C29_Timestamps ==
  [][/\ \A j \in 1..Len(queue') :
          queue'[j].updated_at.minutes >= queue'[j].created_at.minutes
     /\ \A i \in 1..Len(queue), j \in 1..Len(queue') :
          queue'[j].id = queue[i].id =>
            /\ queue'[j].created_at = queue[i].created_at
            /\ queue'[j].updated_at.minutes >= queue[i].updated_at.minutes
            /\ queue'[j].updated_at # queue[i].updated_at =>
                 \/ Called({"cancel_scheduled_post"})
                 \/ /\ Called({"update_scheduled_post"})
                    /\ NamesOf(call'.kwargs) \cap UpdatableFields # {}]_vars

\* a cancel re-stamped a record that was created earlier
C29_Witness ==
  /\ call.op = "cancel_scheduled_post"
  /\ ret = Returned(TRUE)
  /\ \E j \in 1..Len(queue) :
       /\ queue[j].id = call.post_id
       /\ queue[j].updated_at = Dt(call.at)
       /\ queue[j].created_at.minutes < call.at

\* the step is a _make_request call: it left its outcome in request, or it
\* recorded a call
RequestStep ==
  \/ request' # request
  \/ Len(call_history') > Len(RecentCalls(call_history, api_time))

\* how many recorded calls are younger than the window at that time
Recent(history, time) ==
  Cardinality({i \in DOMAIN history : time - history[i] < RATE_LIMIT_WINDOW})

CountAt(history, t) == Cardinality({i \in DOMAIN history : history[i] = t})

\* C30: _make_request sends no request and raises RateLimitError whenever
\* 200 calls younger than 3600 seconds are recorded; a call is recorded
\* exactly when the request returned a response, at the time it returned,
\* and not when it failed with a network exception; recorded calls younger
\* than the window are never dropped, and at no time are more than 200
\* recorded calls younger than 3600 seconds.
C30_RateLimiter ==
  [][/\ RequestStep =>
          LET recent == Recent(call_history, request'.at)
              added == Len(call_history') - recent
          IN /\ request'.at = api_time
             /\ recent >= RATE_LIMIT_CALLS =>
                  /\ ~request'.sent
                  /\ request'.raised = "RateLimitError"
             /\ recent < RATE_LIMIT_CALLS => request'.sent
             /\ request'.response => request'.sent
             /\ added = IF request'.response THEN 1 ELSE 0
             /\ request'.response =>
                  call_history'[Len(call_history')] = api_time'
     /\ Recent(call_history', api_time') <= RATE_LIMIT_CALLS
     /\ \A t \in ApiTimes :
          api_time' - t < RATE_LIMIT_WINDOW =>
            CountAt(call_history', t) >= CountAt(call_history, t)]_vars

\* the 201st request within the window was refused without being sent
C30_Witness ==
  /\ request.raised = "RateLimitError"
  /\ ~request.sent
  /\ Len(call_history) = RATE_LIMIT_CALLS
  /\ request.at = RATE_LIMIT_WINDOW - 1
  /\ CountAt(call_history, 0) > 0

====
